---- MODULE Spec2Model ----
(***************************************************************************)
(* The master of mlbench: the REST views over runs, pods and metrics       *)
(* (master/api/views.py), the run-detail page (master/main/views.py) and   *)
(* the grouping/filtering/export of metrics.                               *)
(*                                                                         *)
(* The store is the database behind the Django models: `runs` (ModelRun),  *)
(* `pods` (KubePod) and `metrics` (KubeMetric).  Request handlers are      *)
(* actions.  ModelRunView.create reads the store (the active-run check)    *)
(* and later writes it (run.start()); these are two database operations    *)
(* with no lock around them, so they are two steps of a client.            *)
(***************************************************************************)
EXTENDS Integers, Sequences, FiniteSets, TLC

VARIABLES
    runs,          \* ModelRun table: pk -> record
    nextRunId,     \* the pk the next saved ModelRun gets
    pods,          \* KubePod table: name -> record
    metrics,       \* KubeMetric table, in insertion (pk) order
    nextMetricId,  \* the pk the next saved KubeMetric gets
    now,           \* the master's clock (timezone.now())
    pc,            \* per request worker: where its POST /runs handler stands
    last,          \* the request answered last, and its response
    request,       \* the arguments of the metrics query answered last
    result,        \* what that query returned: the grouped series, or the archive
    worker         \* a training worker: its AsyncMetricsPost client and its pushes

vars == <<runs, nextRunId, pods, metrics, nextMetricId, now, pc, last, request, result, worker>>

store == <<runs, nextRunId, pods, metrics, nextMetricId>>

(***************************************************************************)
(* Bounds of the model.                                                    *)
(***************************************************************************)
NumClients == 2
MaxRuns == 2
MaxMetrics == 2
MaxLen == 4
MaxObjects == 5
MaxViewObjects == 4

Clients == 1..NumClients
RunIds == 1..MaxRuns
Dates == {1, 2, 3}
PodNames == {"w0", "w1"}
QueryPodNames == PodNames \cup {"w2"}
QueryNames == {"loss"}
QueryRunIds == {1, 2}
RunNames == {"r1"}
MetricNames == {"loss", "acc"}
IngestNames == {"loss"}
IngestDates == {1}
IngestValues == {"0.5"}

(***************************************************************************)
(* Python's None, for an integer field (a pk, a date) and for a name.      *)
(***************************************************************************)
None == 0
NoName == ""

\* ModelRun.state
CREATED == "CREATED"
STARTED == "STARTED"
FINISHED == "FINISHED"
FAILED == "FAILED"

Terminal == {FINISHED, FAILED}

(***************************************************************************)
(* ModelRun(name=..., num_workers=..., cpu_limit=..., ...): a fresh,       *)
(* unsaved run.  num_workers, cpu_limit and network_bandwidth_limit are    *)
(* stored as given and read by no handler, so they are left out.           *)
(***************************************************************************)
NewRun(name) ==
    [name |-> name, state |-> CREATED, job_id |-> None,
     created_at |-> None, finished_at |-> None]

\* start() saving the run as STARTED without keeping the handle.
ModelRun_startNoHandle(run, handle, t) ==
    [run EXCEPT !.state = STARTED, !.created_at = t]

(***************************************************************************)
(* ModelRun.start(): submits the job to the job backend, keeps the handle  *)
(* it gets as job_id and saves the run as STARTED.  `handle` is the        *)
(* backend's answer.                                                       *)
(***************************************************************************)
ModelRun_start(run, handle, t) ==
    [run EXCEPT !.state = STARTED, !.job_id = handle, !.created_at = t]

\* ModelRun.objects.filter(state=ModelRun.STARTED)
ActiveRuns == {id \in DOMAIN runs : runs[id].state = STARTED}

\* The check counting the runs of every state.
HasActiveRunAnyState == Cardinality(DOMAIN runs) > 0

\* The check with its comparison off by one.
HasActiveRunOffByOne == Cardinality(ActiveRuns) > 1

\* active_runs.count() > 0
HasActiveRun == Cardinality(ActiveRuns) > 0

Response(op, status, body) == [op |-> op, status |-> status, body |-> body]

NoLast == Response("none", 0, "none")

\* No training worker is running.
NoWorker == << >>

Init ==
    /\ runs = << >>
    /\ nextRunId = 1
    /\ pods = << >>
    /\ metrics = << >>
    /\ nextMetricId = 1
    /\ now = 1
    /\ pc = [c \in Clients |-> "idle"]
    /\ last = NoLast
    /\ request = << >>
    /\ result = << >>
    /\ worker = NoWorker

(***************************************************************************)
(* ModelRunView.create, first part: the active-run check.  A request that  *)
(* finds a STARTED run is answered 409 at once; one that finds none goes   *)
(* on to construct and start its run.                                      *)
(***************************************************************************)
CreateCheck(c) ==
    /\ pc[c] = "idle"
    /\ IF HasActiveRun
         THEN /\ last' = Response("create", 409, "error")
              /\ pc' = pc
         ELSE /\ last' = NoLast
              /\ pc' = [pc EXCEPT ![c] = "checked"]
    /\ UNCHANGED <<store, now, request, result, worker>>

(***************************************************************************)
(* ModelRunView.create, second part: construct the run, run.start(), and   *)
(* answer 201 with the serialized run.  When the job backend refuses the   *)
(* job (`submitted` false), start() raises and the view, which catches     *)
(* nothing, ends in a 500; start() is taken to have saved nothing then.    *)
(***************************************************************************)
CreateStart(c) ==
    /\ pc[c] = "checked"
    /\ \E name \in RunNames, submitted \in BOOLEAN :
         IF submitted
           THEN /\ nextRunId <= MaxRuns
                /\ runs' = [id \in DOMAIN runs \cup {nextRunId} |->
                              IF id = nextRunId
                                THEN ModelRun_start(NewRun(name), nextRunId, now)
                                ELSE runs[id]]
                /\ nextRunId' = nextRunId + 1
                /\ last' = Response("create", 201, "serialized")
           ELSE /\ UNCHANGED <<runs, nextRunId, worker>>
                /\ last' = Response("create", 500, "error")
    /\ pc' = [pc EXCEPT ![c] = "idle"]
    /\ UNCHANGED <<pods, metrics, nextMetricId, now, request, result, worker>>

(***************************************************************************)
(* The completion signal of the job: a STARTED run becomes FINISHED or     *)
(* FAILED and gets its finished_at.                                        *)
(***************************************************************************)
Finish(id, outcome) ==
    /\ id \in DOMAIN runs
    /\ runs[id].state = STARTED
    /\ runs' = [runs EXCEPT ![id].state = outcome, ![id].finished_at = now]
    /\ last' = NoLast
    /\ UNCHANGED <<nextRunId, pods, metrics, nextMetricId, now, pc, request, result, worker>>

(***************************************************************************)
(* The cluster reports a worker pod of a STARTED run: a KubePod with a     *)
(* unique name, belonging to that run.                                     *)
(***************************************************************************)
PodReported(name, id) ==
    /\ name \notin DOMAIN pods
    /\ id \in DOMAIN runs
    /\ runs[id].state = STARTED
    /\ pods' = [n \in DOMAIN pods \cup {name} |->
                  IF n = name THEN [run |-> id] ELSE pods[n]]
    /\ last' = NoLast
    /\ UNCHANGED <<runs, nextRunId, metrics, nextMetricId, now, pc, request, result, worker>>

\* The master's clock advances.
Tick ==
    /\ now + 1 \in Dates
    /\ now' = now + 1
    /\ last' = NoLast
    /\ UNCHANGED <<store, pc, request, result, worker>>

(***************************************************************************)
(* request.data of POST /api/metrics/: name, date and, each present or     *)
(* not, pod_name and run_id.  metadata and cumulative are copied into the *)
(* metric unread, like value, and are left out.                            *)
(***************************************************************************)
Payloads ==
    [name : IngestNames, date : IngestDates, value : IngestValues]
      \cup [name : IngestNames, date : IngestDates, value : IngestValues, pod_name : PodNames]
      \cup [name : IngestNames, date : IngestDates, value : IngestValues, run_id : RunIds]
      \cup [name : IngestNames, date : IngestDates, value : IngestValues, pod_name : PodNames, run_id : RunIds]

\* KubeMetric(name=..., date=..., pod=pod) / KubeMetric(..., model_run=run)
KubeMetric(id, name, date, value, pod, run) ==
    [id |-> id, name |-> name, date |-> date, value |-> value, pod |-> pod, run |-> run]

\* The pod branch also keeping the run the payload names.
IngestOutcomeBothOwners(d) ==
    IF "pod_name" \in DOMAIN d
      THEN IF d.pod_name \notin DOMAIN pods
             THEN [status |-> 404, metric |-> << >>, body |-> "error"]
             ELSE [status |-> 201,
                   metric |-> <<KubeMetric(nextMetricId, d.name, d.date, d.value, d.pod_name,
                                           IF "run_id" \in DOMAIN d THEN d.run_id ELSE None)>>,
                   body |-> "raw"]
    ELSE IF "run_id" \in DOMAIN d
      THEN IF d.run_id \notin DOMAIN runs
             THEN [status |-> 500, metric |-> << >>, body |-> "error"]
             ELSE [status |-> 201,
                   metric |-> <<KubeMetric(nextMetricId, d.name, d.date, d.value, NoName, d.run_id)>>,
                   body |-> "serialized"]
    ELSE [status |-> 400, metric |-> << >>, body |-> "error"]

(***************************************************************************)
(* KubeMetricsView.create.  The pod branch is taken whenever pod_name is   *)
(* in the payload; it answers with the model object itself (body "raw"),   *)
(* the run branch with the serializer's data.  ModelRun.objects.get raises *)
(* DoesNotExist for an unknown pk, which no handler catches: a 500.        *)
(***************************************************************************)
IngestOutcome(d) ==
    IF "pod_name" \in DOMAIN d
      THEN IF d.pod_name \notin DOMAIN pods
             THEN [status |-> 404, metric |-> << >>, body |-> "error"]
             ELSE [status |-> 201,
                   metric |-> <<KubeMetric(nextMetricId, d.name, d.date, d.value, d.pod_name, None)>>,
                   body |-> "raw"]
    ELSE IF "run_id" \in DOMAIN d
      THEN IF d.run_id \notin DOMAIN runs
             THEN [status |-> 500, metric |-> << >>, body |-> "error"]
             ELSE [status |-> 201,
                   metric |-> <<KubeMetric(nextMetricId, d.name, d.date, d.value, NoName, d.run_id)>>,
                   body |-> "serialized"]
    ELSE [status |-> 400, metric |-> << >>, body |-> "error"]

Ingest(d) ==
    LET out == IngestOutcome(d) IN
    /\ nextMetricId + Len(out.metric) <= MaxMetrics + 1
    /\ metrics' = metrics \o out.metric
    /\ nextMetricId' = nextMetricId + Len(out.metric)
    /\ last' = Response("ingest", out.status, out.body)
    /\ UNCHANGED <<runs, nextRunId, pods, now, pc, request, result, worker>>

(***************************************************************************)
(* run.delete(): the run goes, and with it (on_delete cascade) its pods,   *)
(* its metrics and the metrics of its pods.                                *)
(***************************************************************************)
PodsOf(pk) == {n \in DOMAIN pods : pods[n].run = pk}

Run_delete_runs(pk) == [id \in DOMAIN runs \ {pk} |-> runs[id]]

Run_delete_pods(pk) == [n \in DOMAIN pods \ PodsOf(pk) |-> pods[n]]

Run_delete_metrics(pk) ==
    SelectSeq(metrics, LAMBDA m : m.run # pk /\ m.pod \notin PodsOf(pk))

(***************************************************************************)
(* ModelRunView.destroy.  ModelRun.objects.get raises DoesNotExist for an  *)
(* unknown pk before the `is not None` test is reached: a 500.             *)
(***************************************************************************)
Destroy(pk) ==
    /\ IF pk \in DOMAIN runs
         THEN /\ runs' = Run_delete_runs(pk)
              /\ pods' = Run_delete_pods(pk)
              /\ metrics' = Run_delete_metrics(pk)
              /\ last' = Response("destroy", 204, "none")
         ELSE /\ UNCHANGED <<runs, pods, metrics, worker>>
              /\ last' = Response("destroy", 500, "error")
    /\ UNCHANGED <<nextRunId, nextMetricId, now, pc, request, result, worker>>

(***************************************************************************)
(* main.views.run, the run-detail page: fetches the run and its job, then  *)
(* saves two metrics named "test" for the run, dated now and a minute      *)
(* later.  `fetched` is whether Job.fetch found the job; it never does for *)
(* a run without job_id.                                                   *)
(***************************************************************************)
RunPage(run_id, fetched) ==
    /\ IF run_id \in DOMAIN runs /\ fetched /\ runs[run_id].job_id # None
         THEN /\ nextMetricId + 2 <= MaxMetrics + 1
              /\ metrics' = metrics \o
                   <<KubeMetric(nextMetricId, "test", now, "0.0", NoName, run_id),
                     KubeMetric(nextMetricId + 1, "test", now + 1, "1.0", NoName, run_id)>>
              /\ nextMetricId' = nextMetricId + 2
              /\ last' = Response("run_page", 200, "page")
         ELSE /\ UNCHANGED <<metrics, nextMetricId, worker>>
              /\ last' = Response("run_page", 500, "error")
    /\ UNCHANGED <<runs, nextRunId, pods, now, pc, request, result, worker>>

(***************************************************************************)
(* KubeMetricsView.__format_result and what it is built from.              *)
(***************************************************************************)

\* Python's order on the metric names (str comparison).
NameOrder == <<"acc", "loss", "test">>

NameRank(n) == CHOOSE k \in DOMAIN NameOrder : NameOrder[k] = n

\* key=lambda m: m.name / key=lambda x: x.date
KeyOf(m, key) == IF key = "date" THEN m.date ELSE NameRank(m.name)

\* The insertion of a sort in descending order.
RECURSIVE InsertSortedDescending(_, _, _)
InsertSortedDescending(x, s, key) ==
    IF s = << >> THEN <<x>>
    ELSE IF KeyOf(x, key) > KeyOf(Head(s), key) THEN <<x>> \o s
    ELSE <<Head(s)>> \o InsertSortedDescending(x, Tail(s), key)

(***************************************************************************)
(* sorted(s, key=...): Python's sort is stable, so an element goes behind  *)
(* every element whose key is not greater than its own.                    *)
(***************************************************************************)
RECURSIVE InsertSorted(_, _, _)
InsertSorted(x, s, key) ==
    IF s = << >> THEN <<x>>
    ELSE IF KeyOf(x, key) < KeyOf(Head(s), key) THEN <<x>> \o s
    ELSE <<Head(s)>> \o InsertSorted(x, Tail(s), key)

RECURSIVE Sorted(_, _)
Sorted(s, key) ==
    IF s = << >> THEN << >>
    ELSE InsertSorted(s[Len(s)], Sorted(SubSeq(s, 1, Len(s) - 1), key), key)

(***************************************************************************)
(* itertools.groupby(s, key=lambda m: m.name): one (key, group) pair per   *)
(* run of consecutive elements with the same name.                         *)
(***************************************************************************)
RECURSIVE GroupBy(_)
GroupBy(s) ==
    IF s = << >> THEN << >>
    ELSE LET rest == GroupBy(Tail(s)) IN
         IF rest # << >> /\ Head(rest).key = Head(s).name
           THEN <<[key |-> Head(s).name, group |-> <<Head(s)>> \o Head(rest).group]>>
                  \o Tail(rest)
           ELSE <<[key |-> Head(s).name, group |-> <<Head(s)>>]>> \o rest

\* KubeMetricsSerializer(e).data
KubeMetricsSerializer(e) == [name |-> e.name, date |-> e.date, value |-> e.value]

\* The window with since included.
RetainedFromSince(e, since, until) ==
    /\ since = None \/ e.date >= since
    /\ until = None \/ e.date > until

\* the `if` of the inner comprehension
Retained(e, since, until) ==
    /\ since = None \/ e.date > since
    /\ until = None \/ e.date > until

RECURSIVE Comprehend(_, _, _)
Comprehend(s, since, until) ==
    IF s = << >> THEN << >>
    ELSE (IF Retained(Head(s), since, until)
            THEN <<KubeMetricsSerializer(Head(s))>> ELSE << >>)
           \o Comprehend(Tail(s), since, until)

(***************************************************************************)
(* The dict comprehension over the groups: each group's key maps to its    *)
(* members sorted by date, filtered and serialized; a key met again        *)
(* replaces the earlier entry.                                             *)
(***************************************************************************)
FormatResult(ms, since, until) ==
    LET gs == GroupBy(Sorted(ms, "name"))
        lastOf(n) == CHOOSE i \in DOMAIN gs :
                       /\ gs[i].key = n
                       /\ \A j \in DOMAIN gs : gs[j].key = n => j <= i
    IN [n \in {gs[i].key : i \in DOMAIN gs} |->
          Comprehend(Sorted(gs[lastOf(n)].group, "date"), since, until)]

(***************************************************************************)
(* __format_result applied to arguments of its own: up to MaxLen metrics   *)
(* in some insertion order, with since and until as the export passes them *)
(* (until only along with a since that is not later).                      *)
(***************************************************************************)
ValueOrder == <<"0.0", "0.1", "0.2", "0.3", "0.4", "0.5">>

FormatInputs ==
    UNION {[1..n -> [name : MetricNames, date : Dates]] : n \in 0..MaxLen}

InputMetrics(f) ==
    [i \in DOMAIN f |-> KubeMetric(i, f[i].name, f[i].date, ValueOrder[i], NoName, 1)]

InitFormat ==
    /\ runs = << >>
    /\ nextRunId = 1
    /\ pods = << >>
    /\ metrics = << >>
    /\ nextMetricId = 1
    /\ now = 1
    /\ pc = [c \in Clients |-> "idle"]
    /\ last = NoLast
    /\ \E f \in FormatInputs, since \in Dates \cup {None}, until \in Dates \cup {None} :
         /\ until # None => (since # None /\ since <= until)
         /\ request = [metrics |-> InputMetrics(f), since |-> since, until |-> until]
    /\ result = << >>
    /\ worker = NoWorker

ApplyFormat ==
    /\ last.op = "none"
    /\ result' = FormatResult(request.metrics, request.since, request.until)
    /\ last' = Response("format", 200, "json")
    /\ UNCHANGED <<store, now, pc, request, worker>>

NextFormat == ApplyFormat

SpecFormat == InitFormat /\ [][NextFormat]_vars

(***************************************************************************)
(* KubeMetricsView.retrieve: the metrics of one pod (metric_type "pod",    *)
(* pk its name) or of one run (metric_type "run", pk its id), later than   *)
(* `since` when that is given, as JSON or as a zip archive.                *)
(***************************************************************************)

\* pod.metrics.all() / run.metrics.all()
MetricsOf(metric_type, pk) ==
    IF metric_type = "pod"
      THEN SelectSeq(metrics, LAMBDA m : m.pod = pk)
      ELSE SelectSeq(metrics, LAMBDA m : m.run = pk)

\* KubePod.objects.filter(name=pk).first() is None / ModelRun.objects.get raises
OwnerMissing(metric_type, pk) ==
    IF metric_type = "pod" THEN pk \notin DOMAIN pods ELSE pk \notin DOMAIN runs

\* run.pods.all(), in the order the database returns the pods
RECURSIVE PodSeq(_)
PodSeq(S) ==
    IF S = {} THEN << >>
    ELSE LET n == CHOOSE n \in S : TRUE IN <<n>> \o PodSeq(S \ {n})

\* zf.writestr(name, json.dumps(content, indent=4))
ZipEntry(name, content) == [name |-> name, json |-> content]

\* The archive with a file for every stored pod, whatever its run.
ArchiveOfAllPods(metric_type, pk, ms, res) ==
    <<ZipEntry("result.json", res)>> \o
      (IF metric_type = "run"
         THEN LET ps == PodSeq(DOMAIN pods) IN
              [k \in DOMAIN ps |->
                 ZipEntry(ps[k] \o ".json",
                          FormatResult(ms, runs[pk].created_at, runs[pk].finished_at))]
         ELSE << >>)

(***************************************************************************)
(* The archive: result.json, and for a run one <pod name>.json per pod of  *)
(* the run, each __format_result of `ms`, the metrics fetched for the      *)
(* request, within the run's created_at and finished_at.                   *)
(***************************************************************************)
Archive(metric_type, pk, ms, res) ==
    <<ZipEntry("result.json", res)>> \o
      (IF metric_type = "run"
         THEN LET ps == PodSeq(PodsOf(pk)) IN
              [k \in DOMAIN ps |->
                 ZipEntry(ps[k] \o ".json",
                          FormatResult(ms, runs[pk].created_at, runs[pk].finished_at))]
         ELSE << >>)

Retrieve(pk, metric_type, since, format) ==
    /\ request' = [pk |-> pk, metric_type |-> metric_type, since |-> since,
                   format |-> format]
    /\ IF OwnerMissing(metric_type, pk)
         THEN /\ result' = << >>
              /\ last' = Response("retrieve", 500, "error")
         ELSE LET ms == MetricsOf(metric_type, pk)
                  res == FormatResult(ms, since, None)
              IN IF format = "zip"
                   THEN /\ result' = Archive(metric_type, pk, ms, res)
                        /\ last' = Response("retrieve", 200, "zip")
                   ELSE /\ result' = res
                        /\ last' = Response("retrieve", 200, "json")
    /\ UNCHANGED <<store, now, pc, worker>>

(***************************************************************************)
(* The queries are answered over a store of up to MaxObjects records: some *)
(* runs, started or finished, pods of these runs, and metrics of these     *)
(* pods and runs in some insertion order.                                  *)
(***************************************************************************)
RunConfigs ==
    {[name |-> "r1", state |-> STARTED, created_at |-> 1, finished_at |-> None],
     [name |-> "r1", state |-> FINISHED, created_at |-> 1, finished_at |-> 2]}

Owners(S, P) ==
    {[pod |-> n, run |-> None] : n \in P} \cup {[pod |-> NoName, run |-> id] : id \in S}

InitQuery ==
    /\ \E S \in SUBSET QueryRunIds, P \in SUBSET QueryPodNames :
         /\ Cardinality(S) + Cardinality(P) <= MaxObjects
         /\ \E cfg \in [S -> RunConfigs], owner \in [P -> S] :
              /\ runs = [id \in S |->
                           [name |-> cfg[id].name, state |-> cfg[id].state, job_id |-> id,
                            created_at |-> cfg[id].created_at,
                            finished_at |-> cfg[id].finished_at]]
              /\ pods = [n \in P |-> [run |-> owner[n]]]
         /\ \E n \in 0..(MaxObjects - Cardinality(S) - Cardinality(P)) :
              /\ \E f \in [1..n -> [name : QueryNames, date : Dates, owner : Owners(S, P)]] :
                   metrics = [i \in 1..n |->
                                KubeMetric(i, f[i].name, f[i].date, ValueOrder[i],
                                           f[i].owner.pod, f[i].owner.run)]
              /\ nextMetricId = n + 1
    /\ nextRunId = Cardinality(QueryRunIds) + 1
    /\ now = 3
    /\ pc = [c \in Clients |-> "idle"]
    /\ last = NoLast
    /\ request = << >>
    /\ result = << >>
    /\ worker = NoWorker

NextQuery ==
    \/ \E pk \in QueryPodNames, since \in Dates \cup {None}, format \in {"json", "zip"} :
         last.op = "none" /\ Retrieve(pk, "pod", since, format)
    \/ \E pk \in QueryRunIds, since \in Dates \cup {None}, format \in {"json", "zip"} :
         last.op = "none" /\ Retrieve(pk, "run", since, format)

SpecQuery == InitQuery /\ [][NextQuery]_vars

(***************************************************************************)
(* The read-only views: ModelRunView.list and .retrieve, KubePodView.list  *)
(* and KubeMetricsView.list.                                               *)
(***************************************************************************)

\* What Job.fetch(run.job_id, redis_conn) can do.
JobBackend == {"found", "unknown", "unreachable"}

\* The pks / names of a table in the order Model.objects.all() yields them.
RECURSIVE IdSeq(_)
IdSeq(S) ==
    IF S = {} THEN << >>
    ELSE LET id == CHOOSE id \in S : \A other \in S : id <= other
         IN <<id>> \o IdSeq(S \ {id})

(***************************************************************************)
(* ModelRunView.retrieve: ModelRun.objects.get raises DoesNotExist for an  *)
(* unknown pk, and Job.fetch raises NoSuchJobError for an unknown job and  *)
(* a connection error when redis is unreachable; the view catches none of  *)
(* them, so each ends the request in a 500.                                *)
(***************************************************************************)
RunGet(pk, backend) ==
    /\ request' = [pk |-> pk, backend |-> backend]
    /\ IF pk \in DOMAIN runs /\ backend = "found" /\ runs[pk].job_id # None
         THEN /\ result' = [run |-> runs[pk], job_metadata |-> "meta"]
              /\ last' = Response("get", 200, "serialized")
         ELSE /\ result' = << >>
              /\ last' = Response("get", 500, "error")
    /\ UNCHANGED <<store, now, pc, worker>>

\* ModelRunView.list
RunList ==
    /\ request' = << >>
    /\ result' = [k \in DOMAIN IdSeq(DOMAIN runs) |-> runs[IdSeq(DOMAIN runs)[k]]]
    /\ last' = Response("list_runs", 200, "serialized")
    /\ UNCHANGED <<store, now, pc, worker>>

\* KubePodView.list
PodList ==
    /\ request' = << >>
    /\ result' = PodSeq(DOMAIN pods)
    /\ last' = Response("list_pods", 200, "serialized")
    /\ UNCHANGED <<store, now, pc, worker>>

(***************************************************************************)
(* KubeMetricsView.list: the grouped series of every pod under its name    *)
(* and of every run under the run's name; in the dict comprehension a run  *)
(* whose name was met before replaces the earlier entry.                   *)
(***************************************************************************)
MetricsList ==
    /\ request' = << >>
    /\ result' =
         [pod_metrics |->
            [n \in DOMAIN pods |-> FormatResult(MetricsOf("pod", n), None, None)],
          run_metrics |->
            [nm \in {runs[id].name : id \in DOMAIN runs} |->
               LET id == CHOOSE id \in DOMAIN runs :
                           /\ runs[id].name = nm
                           /\ \A other \in DOMAIN runs :
                                runs[other].name = nm => other <= id
               IN FormatResult(MetricsOf("run", id), None, None)]]
    /\ last' = Response("list_metrics", 200, "json")
    /\ UNCHANGED <<store, now, pc, worker>>

(***************************************************************************)
(* Every view of the master, reading or writing, over a store of up to     *)
(* MaxViewObjects records whose metrics are dated within ViewDates.        *)
(***************************************************************************)
ViewDates == {2}

ViewRunConfigs ==
    {[name |-> "r1", state |-> STARTED, created_at |-> 1, finished_at |-> None]}

InitViews ==
    /\ \E S \in SUBSET QueryRunIds, P \in SUBSET PodNames :
         /\ Cardinality(S) + Cardinality(P) <= MaxViewObjects
         /\ \E cfg \in [S -> ViewRunConfigs], owner \in [P -> S] :
              /\ runs = [id \in S |->
                           [name |-> cfg[id].name, state |-> cfg[id].state, job_id |-> id,
                            created_at |-> cfg[id].created_at,
                            finished_at |-> cfg[id].finished_at]]
              /\ pods = [n \in P |-> [run |-> owner[n]]]
         /\ \E n \in 0..(MaxViewObjects - Cardinality(S) - Cardinality(P)) :
              /\ \E f \in [1..n -> [name : QueryNames, date : ViewDates, owner : Owners(S, P)]] :
                   metrics = [i \in 1..n |->
                                KubeMetric(i, f[i].name, f[i].date, ValueOrder[i],
                                           f[i].owner.pod, f[i].owner.run)]
              /\ nextMetricId = n + 1
    /\ nextRunId = Cardinality(QueryRunIds) + 1
    /\ now = 3
    /\ pc = [c \in Clients |-> "idle"]
    /\ last = NoLast
    /\ request = << >>
    /\ result = << >>
    /\ worker = NoWorker

NextViews ==
    \/ \E pk \in QueryRunIds : Destroy(pk)
    \/ \E pk \in QueryRunIds, backend \in JobBackend : RunGet(pk, backend)
    \/ RunList
    \/ PodList
    \/ MetricsList
    \/ \E pk \in PodNames, format \in {"json", "zip"} : Retrieve(pk, "pod", None, format)
    \/ \E pk \in QueryRunIds, format \in {"json", "zip"} : Retrieve(pk, "run", None, format)
    \/ \E run_id \in QueryRunIds, fetched \in BOOLEAN : RunPage(run_id, fetched)
    \/ \E d \in Payloads : Ingest(d)

SpecViews == InitViews /\ [][NextViews]_vars

(***************************************************************************)
(* Concurrent ingestion.  KubeMetricsView.create reads the store (the      *)
(* owner lookup) and later writes it (metric.save()); these are two        *)
(* database operations, so they are two steps of a request worker.  Each   *)
(* worker c handles one request, request[c], and result[c] is the status   *)
(* it answered, 0 while it has not.                                        *)
(***************************************************************************)
ConcurrentValues == {"0.5", "0.7"}

ConcurrentPayloads ==
    [name : IngestNames, date : IngestDates, value : ConcurrentValues]
      \cup [name : IngestNames, date : IngestDates, value : ConcurrentValues, pod_name : PodNames]
      \cup [name : IngestNames, date : IngestDates, value : ConcurrentValues, run_id : {1, 2}]

\* A save that replaces the stored metric of the same owner, name and date.
MetricUpsert(ms, m) ==
    SelectSeq(ms, LAMBDA e : ~(e.pod = m.pod /\ e.run = m.run /\ e.name = m.name
                               /\ e.date = m.date))
      \o <<m>>

\* metric.save(): an INSERT, the new row behind the rows stored so far.
MetricSave(ms, m) == Append(ms, m)

InitIngest ==
    /\ runs = [id \in {1} |-> ModelRun_start(NewRun("r1"), 1, 1)]
    /\ nextRunId = 2
    /\ pods = [n \in {"w0"} |-> [run |-> 1]]
    /\ metrics = << >>
    /\ nextMetricId = 1
    /\ now = 1
    /\ pc = [c \in Clients |-> "idle"]
    /\ last = NoLast
    /\ request \in [Clients -> ConcurrentPayloads]
    /\ result = [c \in Clients |-> 0]
    /\ worker = NoWorker

\* The owner lookup, and the answer at once when it finds no owner.
IngestResolve(c) ==
    LET out == IngestOutcome(request[c]) IN
    /\ pc[c] = "idle"
    /\ IF out.status = 201
         THEN /\ pc' = [pc EXCEPT ![c] = "found"]
              /\ last' = NoLast
              /\ result' = result
         ELSE /\ pc' = [pc EXCEPT ![c] = "done"]
              /\ last' = Response("ingest", out.status, out.body)
              /\ result' = [result EXCEPT ![c] = out.status]
    /\ UNCHANGED <<store, now, request, worker>>

\* KubeMetric(...), metric.save() and the 201.
IngestSave(c) ==
    LET d == request[c]
        m == IF "pod_name" \in DOMAIN d
               THEN KubeMetric(nextMetricId, d.name, d.date, d.value, d.pod_name, None)
               ELSE KubeMetric(nextMetricId, d.name, d.date, d.value, NoName, d.run_id)
    IN /\ pc[c] = "found"
       /\ metrics' = MetricSave(metrics, m)
       /\ nextMetricId' = nextMetricId + 1
       /\ pc' = [pc EXCEPT ![c] = "done"]
       /\ last' = Response("ingest", 201,
                           IF "pod_name" \in DOMAIN d THEN "raw" ELSE "serialized")
       /\ result' = [result EXCEPT ![c] = 201]
       /\ UNCHANGED <<runs, nextRunId, pods, now, request, worker>>

NextIngest ==
    \/ \E c \in Clients : IngestResolve(c)
    \/ \E c \in Clients : IngestSave(c)

SpecIngest == InitIngest /\ [][NextIngest]_vars

(***************************************************************************)
(* The export of a run, step by step, next to concurrent ingestion.  The   *)
(* request worker Exporter handles GET /api/metrics/<pk>/ with metric_type *)
(* run and format zip.  `metrics = run.metrics.all()` is a lazy queryset:  *)
(* the first __format_result iterates it, which reads the table once and   *)
(* caches the rows in the queryset; every later __format_result(metrics,   *)
(* ...) iterates the cached rows.  `for pod in pods` reads the pods of the *)
(* run.  request.cache holds the cached rows, request.pods the pods whose  *)
(* file is still to be written, result the entries written so far.         *)
(***************************************************************************)
Exporter == 1

ExportPayloads ==
    [name : IngestNames, date : {2}, value : IngestValues, run_id : {1}]
      \cup [name : IngestNames, date : {2}, value : IngestValues, pod_name : PodNames]

InitExport ==
    /\ runs = [id \in {1} |-> ModelRun_start(NewRun("r1"), 1, 1)]
    /\ nextRunId = 2
    /\ \E P \in SUBSET PodNames : pods = [n \in P |-> [run |-> 1]]
    /\ metrics = << >>
    /\ nextMetricId = 1
    /\ now = 2
    /\ pc = [c \in Clients |-> "idle"]
    /\ last = NoLast
    /\ request = << >>
    /\ result = << >>
    /\ worker = NoWorker

\* The rows the per-pod loop reading pod.metrics.all() afresh would format.
PodFileRowsFresh(cache, pk) == MetricsOf("run", pk)

\* The rows __format_result is given for a pod's file: `metrics`, the
\* queryset of the request, already evaluated.
PodFileRows(cache, pk) == cache

\* run = ModelRun.objects.get(pk=pk) up to zf.writestr('result.json', ...)
ExportBegin(pk, since) ==
    /\ pc[Exporter] = "idle"
    /\ pk \in DOMAIN runs
    /\ request' = [pk |-> pk, metric_type |-> "run", since |-> since, format |-> "zip",
                   cache |-> MetricsOf("run", pk), pods |-> << >>]
    /\ result' = <<ZipEntry("result.json", FormatResult(MetricsOf("run", pk), since, None))>>
    /\ pc' = [pc EXCEPT ![Exporter] = "formatted"]
    /\ last' = NoLast
    /\ UNCHANGED <<store, now, worker>>

\* run = ModelRun.objects.get(pk=pk); pods = run.pods.all(); for pod in pods
ExportPods ==
    /\ pc[Exporter] = "formatted"
    /\ request' = [request EXCEPT !.pods = PodSeq(PodsOf(request.pk))]
    /\ pc' = [pc EXCEPT ![Exporter] = "writing"]
    /\ last' = NoLast
    /\ UNCHANGED <<store, now, result, worker>>

\* One turn of the loop: the pod's file.
ExportPodFile ==
    /\ pc[Exporter] = "writing"
    /\ request.pods # << >>
    /\ result' = Append(result,
                        ZipEntry(Head(request.pods) \o ".json",
                                 FormatResult(PodFileRows(request.cache, request.pk),
                                              runs[request.pk].created_at,
                                              runs[request.pk].finished_at)))
    /\ request' = [request EXCEPT !.pods = Tail(request.pods)]
    /\ last' = NoLast
    /\ UNCHANGED <<store, now, pc, worker>>

\* zf.close() and the response
ExportEnd ==
    /\ pc[Exporter] = "writing"
    /\ request.pods = << >>
    /\ pc' = [pc EXCEPT ![Exporter] = "idle"]
    /\ last' = Response("retrieve", 200, "zip")
    /\ UNCHANGED <<store, now, request, result, worker>>

NextExport ==
    \/ \E pk \in {1}, since \in {None, 1} : ExportBegin(pk, since)
    \/ ExportPods
    \/ ExportPodFile
    \/ ExportEnd
    \/ \E d \in ExportPayloads : Ingest(d)

SpecExport == InitExport /\ [][NextExport]_vars

(***************************************************************************)
(* The training worker (refimpls/pytorch/utils/log.py): post_metrics, the  *)
(* process-wide AsyncMetricsPost client async_post, and the curl processes *)
(* it spawns.  worker.pushes lists the spawned processes: the payload, the *)
(* state of the process, the master's status when it answered, and the     *)
(* number of requests the process has made.  worker.calls counts the calls *)
(* of post_metrics, worker.inits those of init().                          *)
(***************************************************************************)
MaxPosts == 3

\* What init() meets: no in-cluster configuration, exactly one master pod,
\* a failing list_namespaced_pod, or a list without exactly one master pod.
Cluster == {"not_incluster", "one_master", "list_fails", "no_master"}

\* AsyncMetricsPost() as constructed at import
AsyncMetricsPost == [initialized |-> FALSE, incluster |-> TRUE, endpoint |-> NoName]

\* init() taking a failed listing of the master pods for a success.
AsyncMetricsPost_initSwallowing(client, cluster) ==
    CASE cluster = "not_incluster" ->
           [client |-> [client EXCEPT !.incluster = FALSE], raised |-> FALSE]
      [] cluster = "one_master" ->
           [client |-> [client EXCEPT !.endpoint = "master", !.initialized = TRUE],
            raised |-> FALSE]
      [] OTHER -> [client |-> [client EXCEPT !.initialized = TRUE], raised |-> FALSE]

(***************************************************************************)
(* AsyncMetricsPost.init().  When list_namespaced_pod raises, the except   *)
(* clause prints and the next line reads the unbound api_response; when    *)
(* the list has not exactly one item the assert fails: either way init()   *)
(* raises and leaves the client as it was.                                 *)
(***************************************************************************)
AsyncMetricsPost_init(client, cluster) ==
    CASE cluster = "not_incluster" ->
           [client |-> [client EXCEPT !.incluster = FALSE], raised |-> FALSE]
      [] cluster = "one_master" ->
           [client |-> [client EXCEPT !.endpoint = "master", !.initialized = TRUE],
            raised |-> FALSE]
      [] OTHER -> [client |-> client, raised |-> TRUE]

\* subprocess.Popen(command): a curl process, started and not waited for
Popen(payload) == [payload |-> payload, state |-> "inflight", status |-> 0, requests |-> 0]

(***************************************************************************)
(* AsyncMetricsPost.post(payload): the client after the call, the process  *)
(* it spawned, if any, whether it called init() and whether it raised.     *)
(* The in-cluster test is made only in a call that has just run init().    *)
(***************************************************************************)
AsyncMetricsPost_post(client, payload, cluster) ==
    IF client.initialized
      THEN [client |-> client, spawned |-> <<Popen(payload)>>, inits |-> 0,
            raised |-> FALSE]
      ELSE LET inited == AsyncMetricsPost_init(client, cluster) IN
           IF inited.raised \/ ~inited.client.incluster
             THEN [client |-> inited.client, spawned |-> << >>, inits |-> 1,
                   raised |-> inited.raised]
             ELSE [client |-> inited.client, spawned |-> <<Popen(payload)>>, inits |-> 1,
                   raised |-> FALSE]

\* curl gives up after a request that failed, but the process is kept to
\* try again.
AfterFailureRetrying(push) == [push EXCEPT !.requests = @ + 1]

\* curl without --retry: one request; when it fails the process ends.
AfterFailure(push) == [push EXCEPT !.state = "failed", !.requests = @ + 1]

InitWorker ==
    /\ \E S \in SUBSET {1} : runs = [id \in S |-> ModelRun_start(NewRun("r1"), id, 1)]
    /\ nextRunId = 2
    /\ pods = << >>
    /\ metrics = << >>
    /\ nextMetricId = 1
    /\ now = 1
    /\ pc = [c \in Clients |-> "idle"]
    /\ last = NoLast
    /\ request = << >>
    /\ result = << >>
    /\ \E rank \in {0, 1}, dont_post \in BOOLEAN :
         worker = [async_post |-> AsyncMetricsPost, rank |-> rank,
                   dont_post_to_dashboard |-> dont_post, run_id |-> 1,
                   records |-> << >>, pushes |-> << >>, calls |-> 0, inits |-> 0]

(***************************************************************************)
(* post_metrics(options, metric_name, value), with _post_metrics: the      *)
(* sample is pushed when rank is 0, posting is not switched off and the    *)
(* client is in-cluster, and then appended to the local records; an        *)
(* exception of post() leaves post_metrics before the append.              *)
(***************************************************************************)
PostMetrics(metric_name, cluster) ==
    LET data == [run_id |-> worker.run_id, name |-> metric_name,
                 value |-> ValueOrder[worker.calls + 1], date |-> now]
        posted == IF /\ worker.rank = 0
                     /\ ~worker.dont_post_to_dashboard
                     /\ worker.async_post.incluster
                    THEN AsyncMetricsPost_post(worker.async_post, data, cluster)
                    ELSE [client |-> worker.async_post, spawned |-> << >>, inits |-> 0,
                          raised |-> FALSE]
    IN /\ worker # NoWorker
       /\ worker.calls < MaxPosts
       /\ worker' = [worker EXCEPT
                       !.async_post = posted.client,
                       !.pushes = @ \o posted.spawned,
                       !.records = IF posted.raised THEN @ ELSE Append(@, data),
                       !.calls = @ + 1,
                       !.inits = @ + posted.inits]
       /\ last' = NoLast
       /\ UNCHANGED <<store, now, pc, request, result>>

\* The curl process reaches the master, which handles POST /api/metrics/.
CurlDeliver(i) ==
    /\ worker # NoWorker
    /\ i \in DOMAIN worker.pushes
    /\ worker.pushes[i].state = "inflight"
    /\ LET out == IngestOutcome(worker.pushes[i].payload) IN
         /\ metrics' = metrics \o out.metric
         /\ nextMetricId' = nextMetricId + Len(out.metric)
         /\ last' = Response("ingest", out.status, out.body)
         /\ worker' = [worker EXCEPT !.pushes[i] =
                         [@ EXCEPT !.state = "answered", !.status = out.status,
                                   !.requests = @ + 1]]
    /\ UNCHANGED <<runs, nextRunId, pods, now, pc, request, result>>

\* The curl process does not reach the master.
CurlFail(i) ==
    /\ worker # NoWorker
    /\ i \in DOMAIN worker.pushes
    /\ worker.pushes[i].state = "inflight"
    /\ worker' = [worker EXCEPT !.pushes[i] = AfterFailure(@)]
    /\ last' = NoLast
    /\ UNCHANGED <<store, now, pc, request, result>>

NextWorker ==
    \/ \E metric_name \in IngestNames, cluster \in Cluster : PostMetrics(metric_name, cluster)
    \/ \E i \in 1..MaxPosts : CurlDeliver(i)
    \/ \E i \in 1..MaxPosts : CurlFail(i)

SpecWorker == InitWorker /\ [][NextWorker]_vars

(***************************************************************************)
(* Concurrent request workers creating runs, the jobs' completion signals, *)
(* run deletion and the clock.                                             *)
(***************************************************************************)
Next ==
    \/ \E c \in Clients : CreateCheck(c)
    \/ \E c \in Clients : CreateStart(c)
    \/ \E id \in RunIds, outcome \in Terminal : Finish(id, outcome)
    \/ \E pk \in RunIds : Destroy(pk)
    \/ Tick

Spec == Init /\ [][Next]_vars

(***************************************************************************)
(* Run creation handled one request at a time: a single request worker,    *)
(* whose check and start are over before its next request begins.          *)
(***************************************************************************)
NextSequential ==
    \/ CreateCheck(1)
    \/ CreateStart(1)
    \/ \E id \in RunIds, outcome \in Terminal : Finish(id, outcome)
    \/ \E pk \in RunIds : Destroy(pk)
    \/ Tick

SpecSequential == Init /\ [][NextSequential]_vars

(***************************************************************************)
(* One request worker, and every handler that writes the store.            *)
(***************************************************************************)
NextStore ==
    \/ CreateCheck(1)
    \/ CreateStart(1)
    \/ \E id \in RunIds, outcome \in Terminal : Finish(id, outcome)
    \/ \E name \in PodNames, id \in RunIds : PodReported(name, id)
    \/ \E d \in Payloads : Ingest(d)
    \/ \E pk \in RunIds : Destroy(pk)
    \/ \E run_id \in RunIds, fetched \in BOOLEAN : RunPage(run_id, fetched)

SpecStore == Init /\ [][NextStore]_vars

(***************************************************************************)
(* Run creation and the single active run.                                 *)
(***************************************************************************)

\* Some stored run is STARTED.
SomeRunStarted == \E id \in DOMAIN runs : runs[id].state = STARTED

\* C1: invariant I1: whatever the interleaving of concurrent run-create
\* requests, at most one Run is STARTED.
C1_AtMostOneStarted ==
    Cardinality({id \in DOMAIN runs : runs[id].state = STARTED}) <= 1

\* C2: of the create+start attempts racing for the free slot exactly one is
\* answered 201 and the others 409: an attempt is answered 201 only if no Run
\* was STARTED at the moment it completed.
C2_OneSucceedsRestConflict ==
    [][\A c \in Clients :
         (pc[c] = "checked" /\ pc'[c] = "idle" /\ last'.status = 201)
           => ~SomeRunStarted]_vars

\* C3: while some Run is STARTED no run-create request passes the check, and
\* the request answered at the check is answered 409 and leaves runs, pods,
\* metrics and the pk sequences as they were (so no job was submitted).
C3_ConflictLeavesStore ==
    [][SomeRunStarted =>
         /\ \A c \in Clients : pc[c] = "idle" => pc'[c] = "idle"
         /\ (last'.op = "create" /\ pc' = pc)
              => (last'.status = 409 /\ store' = store)]_vars

C3_Witness ==
    /\ last = Response("create", 409, "error")
    /\ SomeRunStarted
    /\ Len(metrics) > 0
    /\ DOMAIN pods # {}

(***************************************************************************)
(* Metric ingestion.                                                       *)
(***************************************************************************)

HasPodName(d) == "pod_name" \in DOMAIN d
HasRunId(d) == "run_id" \in DOMAIN d

\* C4: a payload with both pod_name and run_id, or with neither, is answered
\* 400 and no Metric is stored.
C4_AmbiguousOwnerRejected ==
    [][\A d \in Payloads :
         (Ingest(d) /\ (HasPodName(d) <=> HasRunId(d)))
           => (last'.status = 400 /\ metrics' = metrics)]_vars

\* C5: invariant I2: every stored Metric has exactly one owner, a Pod or a
\* Run, never both and never neither.
C5_ExactlyOneOwner ==
    \A i \in 1..Len(metrics) :
      (metrics[i].pod # NoName) # (metrics[i].run # None)

C5_Witness ==
    /\ \E i \in 1..Len(metrics) : metrics[i].pod # NoName
    /\ \E i \in 1..Len(metrics) : metrics[i].run # None
    /\ Cardinality(DOMAIN runs) < nextRunId - 1

\* C6: a payload whose pod_name names no stored Pod, or whose run_id names no
\* stored Run, is answered 404 and no Metric is stored.
C6_MissingOwnerNotFound ==
    [][\A d \in Payloads :
         /\ Ingest(d)
         /\ \/ HasPodName(d) /\ ~HasRunId(d) /\ d.pod_name \notin DOMAIN pods
            \/ HasRunId(d) /\ ~HasPodName(d) /\ d.run_id \notin DOMAIN runs
         => (last'.status = 404 /\ metrics' = metrics)]_vars

(***************************************************************************)
(* Grouping, ordering and the time window.                                 *)
(***************************************************************************)

\* The dates of the metrics `ms`.
DatesOf(ms) == {ms[i].date : i \in DOMAIN ms}

\* The positions of `ms` whose metric has name n and a date in D.
Kept(ms, n, D) ==
    {i \in DOMAIN ms : ms[i].name = n /\ ms[i].date \in D}

\* Position i of `ms` comes before position j: earlier date, or same date
\* and inserted earlier.
Before(ms, i, j) ==
    \/ ms[i].date < ms[j].date
    \/ ms[i].date = ms[j].date /\ i < j

\* The k-th of the positions S in that order.
Ranked(ms, S, k) ==
    CHOOSE i \in S : Cardinality({j \in S : Before(ms, j, i)}) = k - 1

\* `series` lists exactly the metrics of `ms` at positions S, by date, ties
\* by insertion order.
ListsInOrder(ms, series, S) ==
    /\ Len(series) = Cardinality(S)
    /\ \A k \in 1..Len(series) :
         series[k] = [name |-> ms[Ranked(ms, S, k)].name,
                      date |-> ms[Ranked(ms, S, k)].date,
                      value |-> ms[Ranked(ms, S, k)].value]

\* `series` holds exactly the metrics of `ms` at positions S, in some order.
ListsExactly(ms, series, S) ==
    /\ Len(series) = Cardinality(S)
    /\ {series[k] : k \in 1..Len(series)} =
         {[name |-> ms[i].name, date |-> ms[i].date, value |-> ms[i].value] : i \in S}

\* C7: the result has one entry per name of the input, and the entry of a
\* name lists exactly the retained metrics of that name in non-decreasing
\* date order, metrics of equal date in insertion order.
C7_GroupedAndOrdered ==
    last.op = "format" =>
      /\ DOMAIN result = {request.metrics[i].name : i \in DOMAIN request.metrics}
      /\ \A n \in DOMAIN result :
           /\ ListsInOrder(request.metrics, result[n],
                           Kept(request.metrics, n,
                                {t \in DatesOf(request.metrics) :
                                   /\ request.since = None \/ t > request.since
                                   /\ request.until = None \/ t > request.until}))
           /\ \A k \in 1..(Len(result[n]) - 1) : result[n][k].date <= result[n][k + 1].date

\* Out-of-order dates, two names, and two metrics of one name and date.
C7_Witness ==
    /\ last.op = "format"
    /\ Cardinality(DOMAIN result) = 2
    /\ request.since # None
    /\ \E i, j \in DOMAIN request.metrics :
         /\ i < j
         /\ request.metrics[i].name = request.metrics[j].name
         /\ request.metrics[i].date > request.metrics[j].date
    /\ \E n \in DOMAIN result : \E k \in 1..(Len(result[n]) - 1) :
         result[n][k].date = result[n][k + 1].date

\* C9: with since and until both given, a metric is in the result if and
\* only if since < date <= until.
C9_HalfOpenWindow ==
    (last.op = "format" /\ request.since # None /\ request.until # None) =>
      \A n \in DOMAIN result :
        ListsInOrder(request.metrics, result[n],
                     Kept(request.metrics, n,
                          {t \in DatesOf(request.metrics) :
                             request.since < t /\ t <= request.until}))

(***************************************************************************)
(* Retrieval and export.                                                   *)
(***************************************************************************)

\* The stored metrics whose owner is the pod, or the run, the request names.
OwnedByRequested ==
    SelectSeq(metrics,
              LAMBDA m : IF request.metric_type = "pod"
                           THEN m.pod = request.pk /\ m.run = None
                           ELSE m.run = request.pk /\ m.pod = NoName)

\* C8: retrieve with no upper bound returns exactly the owner's metrics with
\* date > since (dates 1,2,3 and since = 2 give exactly 3), and every metric
\* of the owner when since is absent.
C8_RetrieveSince ==
    (last.op = "retrieve" /\ last.status = 200 /\ request.format = "json") =>
      /\ DOMAIN result = {OwnedByRequested[i].name : i \in DOMAIN OwnedByRequested}
      /\ \A n \in DOMAIN result :
           ListsExactly(OwnedByRequested, result[n],
                        Kept(OwnedByRequested, n,
                             {t \in DatesOf(OwnedByRequested) :
                                request.since = None \/ t > request.since}))

\* The owner has a metric at since and one after it, and another owner has
\* a metric after it.
C8_Witness ==
    /\ last.op = "retrieve" /\ last.status = 200 /\ request.format = "json"
    /\ request.metric_type = "run"
    /\ request.since = 2
    /\ {OwnedByRequested[i].date : i \in DOMAIN OwnedByRequested} = {2, 3}
    /\ \E i \in DOMAIN metrics : metrics[i].date = 3 /\ metrics[i].run # request.pk
    /\ Len(metrics) > Len(OwnedByRequested)
    /\ \E n \in DOMAIN result : Len(result[n]) = 1 /\ result[n][1].date = 3

\* C10: the archive of a run with N pods holds exactly result.json and one
\* <pod name>.json per pod of the run, N + 1 entries; the archive of a pod
\* holds result.json alone.
C10_ArchiveEntries ==
    (last.op = "retrieve" /\ last.status = 200 /\ request.format = "zip") =>
      LET mine == IF request.metric_type = "run"
                    THEN {n \in DOMAIN pods : pods[n].run = request.pk}
                    ELSE {}
      IN /\ Len(result) = Cardinality(mine) + 1
         /\ {result[k].name : k \in DOMAIN result} =
              {"result.json"} \cup {n \o ".json" : n \in mine}

\* A run with three pods, exported.
C10_Witness ==
    /\ last.op = "retrieve" /\ last.status = 200 /\ request.format = "zip"
    /\ request.metric_type = "run"
    /\ Cardinality({n \in DOMAIN pods : pods[n].run = request.pk}) = 3
    /\ Len(result) = 4

\* The stored metrics owned by pod p.
OwnedByPod(p) == SelectSeq(metrics, LAMBDA m : m.pod = p /\ m.run = None)

\* The series of name n in the grouped series `json`, empty when absent.
SeriesOf(json, n) == IF n \in DOMAIN json THEN json[n] ELSE << >>

\* C11: in the archive of a run, <pod name>.json of each pod of the run holds
\* exactly that pod's own metrics, by name, with created_at < date and, for a
\* finished run, date <= finished_at, whatever `since` the caller gave.
C11_PodFileOwnMetrics ==
    (last.op = "retrieve" /\ last.status = 200 /\ request.format = "zip"
       /\ request.metric_type = "run") =>
      \A p \in {n \in DOMAIN pods : pods[n].run = request.pk} :
        \E k \in DOMAIN result :
          /\ result[k].name = p \o ".json"
          /\ \A n \in QueryNames :
               ListsExactly(OwnedByPod(p), SeriesOf(result[k].json, n),
                            Kept(OwnedByPod(p), n,
                                 {t \in DatesOf(OwnedByPod(p)) :
                                    /\ runs[request.pk].created_at < t
                                    /\ \/ runs[request.pk].finished_at = None
                                       \/ t <= runs[request.pk].finished_at}))

(***************************************************************************)
(* Deletion and the reading views.                                         *)
(***************************************************************************)

\* Run pk was stored once and has been deleted: pks are given out in
\* sequence and never reused.
DeletedRun(pk) == pk \in 1..(nextRunId - 1) /\ pk \notin DOMAIN runs

\* C12: deleting a Run removes the Run, its Pods, its Metrics and the Metrics
\* of its Pods and leaves every other Run, Pod and Metric as it was; and a
\* later query for the deleted id is answered 404 or with an empty result.
C12_DeleteCascades ==
    /\ [][\A pk \in QueryRunIds :
            (Destroy(pk) /\ pk \in DOMAIN runs) =>
              /\ DOMAIN runs' = DOMAIN runs \ {pk}
              /\ \A id \in DOMAIN runs' : runs'[id] = runs[id]
              /\ DOMAIN pods' = {n \in DOMAIN pods : pods[n].run # pk}
              /\ \A n \in DOMAIN pods' : pods'[n] = pods[n]
              /\ metrics' = SelectSeq(metrics,
                                      LAMBDA m : /\ m.run # pk
                                                 /\ m.pod \in DOMAIN pods => pods[m.pod].run # pk)]_vars
    /\ [](/\ (last.op = "retrieve" /\ request.metric_type = "run" /\ DeletedRun(request.pk))
               => \/ last.status = 404
                  \/ last.status = 200 /\ DOMAIN result = {}
          /\ (last.op = "get" /\ DeletedRun(request.pk)) => last.status = 404)

\* C13: deleting an id that names no stored Run (one deleted before
\* included) is answered 404 and leaves the store as it was.
C13_DeleteMissingNotFound ==
    [][\A pk \in QueryRunIds :
         (Destroy(pk) /\ pk \notin DOMAIN runs)
           => (last'.status = 404 /\ store' = store)]_vars

\* C14: get of a stored Run is answered 200 with the Run as it is stored,
\* whatever the job backend does: job found, job unknown, backend
\* unreachable.
C14_GetSurvivesBackend ==
    (last.op = "get" /\ request.pk \in DOMAIN runs) =>
      /\ last.status = 200
      /\ result.run = runs[request.pk]

\* C15: retrieving the metrics, as JSON or as an archive, of a pod name or
\* a run id that names nothing stored is answered 404.
C15_RetrieveMissingOwner ==
    (/\ last.op = "retrieve"
     /\ IF request.metric_type = "pod"
          THEN request.pk \notin DOMAIN pods
          ELSE request.pk \notin DOMAIN runs)
      => last.status = 404

C17_MetricLifecycle ==
    [][metrics' # metrics =>
         \/ /\ last'.op = "ingest"
            /\ Len(metrics') = Len(metrics) + 1
            /\ SubSeq(metrics', 1, Len(metrics)) = metrics
         \/ /\ last'.op = "destroy"
            /\ \A i \in DOMAIN metrics' : \E j \in DOMAIN metrics : metrics[j] = metrics'[i]]_vars

(***************************************************************************)
(* Concurrent ingestion.                                                   *)
(***************************************************************************)

\* What is stored of a metric besides its pk.
Content(m) == [name |-> m.name, date |-> m.date, value |-> m.value,
               pod |-> m.pod, run |-> m.run]

\* The payload names, by exactly one owner field, a stored Pod or Run.
NamesStoredOwner(d) ==
    \/ HasPodName(d) /\ ~HasRunId(d) /\ d.pod_name \in DOMAIN pods
    \/ HasRunId(d) /\ ~HasPodName(d) /\ d.run_id \in DOMAIN runs

\* The Metric the payload asks to store.
Asked(d) ==
    [name |-> d.name, date |-> d.date, value |-> d.value,
     pod |-> IF HasPodName(d) THEN d.pod_name ELSE NoName,
     run |-> IF HasRunId(d) THEN d.run_id ELSE None]

\* C18: an ingest answered 201 adds exactly one Metric, no ingest step
\* changes a stored Metric, Pod or Run (so I1 is untouched), and once all
\* concurrent requests are answered the stored Metrics are, whatever the
\* interleaving, one per request that names a stored owner.
C18_IngestAppendsAndCommutes ==
    /\ [][/\ SubSeq(metrics', 1, Len(metrics)) = metrics
          /\ runs' = runs /\ pods' = pods
          /\ \A c \in Clients :
               (result[c] = 0 /\ result'[c] = 201) => Len(metrics') = Len(metrics) + 1
          /\ Len(metrics') # Len(metrics) =>
               \E c \in Clients : result[c] = 0 /\ result'[c] = 201]_vars
    /\ []((\A c \in Clients : pc[c] = "done") =>
            \A d \in ConcurrentPayloads :
              Cardinality({i \in DOMAIN metrics : Content(metrics[i]) = Asked(d)})
                = IF NamesStoredOwner(d)
                    THEN Cardinality({c \in Clients : request[c] = d})
                    ELSE 0)

\* All requests answered: two stored metrics of one owner, name and date
\* with different values, the later request's metric stored first.
C18_Witness ==
    /\ \A c \in Clients : pc[c] = "done"
    /\ Len(metrics) >= 2
    /\ metrics[1].pod = metrics[2].pod /\ metrics[1].run = metrics[2].run
    /\ metrics[1].value # metrics[2].value
    /\ \E c1, c2 \in Clients :
         /\ c1 < c2
         /\ Content(metrics[1]) = Asked(request[c2])
         /\ Content(metrics[2]) = Asked(request[c1])

(***************************************************************************)
(* The export next to concurrent ingestion.                                *)
(***************************************************************************)

\* The run's, and the pod's, rows among the first n rows of the Metric
\* table: what a read returned when the table held n rows (rows are only
\* appended here).
RunRowsAt(n, pk) == SelectSeq(SubSeq(metrics, 1, n), LAMBDA m : m.run = pk)

PodRowsAt(n, p) == SelectSeq(SubSeq(metrics, 1, n), LAMBDA m : m.pod = p)

\* C19: every file of one archive reflects the same set of stored metrics:
\* there is one moment of the export, the table holding n rows, such that
\* result.json is the run's series at that moment and every pod file is the
\* series, within the run's window, of the run's or of that pod's metrics at
\* that same moment.
C19_OneSnapshot ==
    (last.op = "retrieve" /\ last.status = 200 /\ pc[Exporter] = "idle") =>
      \E n \in 0..Len(metrics) :
        LET run == runs[request.pk]
        IN /\ result[1].json = FormatResult(RunRowsAt(n, request.pk), request.since, None)
           /\ \A k \in 2..Len(result) :
                \/ result[k].json =
                     FormatResult(RunRowsAt(n, request.pk), run.created_at, run.finished_at)
                \/ \E p \in DOMAIN pods :
                     /\ result[k].name = p \o ".json"
                     /\ result[k].json =
                          FormatResult(PodRowsAt(n, p), run.created_at, run.finished_at)

\* An archive with two pod files is complete, and a metric of the run was
\* ingested after result.json was computed without it.
C19_Witness ==
    /\ last.op = "retrieve" /\ last.status = 200 /\ pc[Exporter] = "idle"
    /\ Len(result) = 3
    /\ Len(request.cache) = 1
    /\ Len(MetricsOf("run", request.pk)) = 2
    /\ \E k \in DOMAIN result : DOMAIN result[k].json # {}

(***************************************************************************)
(* The worker's push.                                                      *)
(***************************************************************************)

\* The stored metrics that carry the value of the payload.
StoredOf(payload) == {i \in DOMAIN metrics : metrics[i].value = payload.value}

\* C20: the push is fire-and-forget: the call that spawns a push returns
\* with the push still unanswered and the master's store untouched; a push
\* makes at most one request and, once failed, stays failed; each payload is
\* pushed, and stored, at most once; and a payload whose push failed, or was
\* not answered 201, is not in the master's store.
C20_FireAndForget ==
    /\ [][/\ Len(worker'.pushes) # Len(worker.pushes) =>
               /\ Len(worker'.pushes) = Len(worker.pushes) + 1
               /\ worker'.calls = worker.calls + 1
               /\ worker'.pushes[Len(worker'.pushes)].state = "inflight"
               /\ store' = store
          /\ \A i \in DOMAIN worker.pushes :
               worker.pushes[i].state = "failed" => worker'.pushes[i] = worker.pushes[i]]_vars
    /\ [](\A i \in DOMAIN worker.pushes :
            LET push == worker.pushes[i] IN
            /\ push.requests <= 1
            /\ \A j \in DOMAIN worker.pushes : worker.pushes[j].payload = push.payload => j = i
            /\ Cardinality(StoredOf(push.payload)) <= 1
            /\ (push.state # "answered" \/ push.status # 201) => StoredOf(push.payload) = {})

\* post_metrics has returned three times: one push has failed, one was
\* answered 201 and its metric is stored, one is still under way.
C20_Witness ==
    /\ worker.calls = 3
    /\ \E i, j, k \in DOMAIN worker.pushes :
         /\ worker.pushes[i].state = "failed"
         /\ worker.pushes[j].state = "answered" /\ worker.pushes[j].status = 201
         /\ StoredOf(worker.pushes[j].payload) # {}
         /\ worker.pushes[k].state = "inflight"

(***************************************************************************)
(* Round trip, the global listing, sequential creation, the worker client. *)
(***************************************************************************)

\* C21: an ingest answered 201 answers with the stored representation of
\* the metric it saved, and a later retrieve of the owner, without since,
\* lists every stored metric of the owner, the ingested one included, under
\* its name.
C21_IngestRetrieveRoundTrip ==
    /\ [][\A d \in Payloads :
            (Ingest(d) /\ last'.status = 201) =>
              /\ Len(metrics') = Len(metrics) + 1
              /\ last'.body = "serialized"]_vars
    /\ []((/\ last.op = "retrieve" /\ last.status = 200
           /\ request.format = "json" /\ request.since = None) =>
            \A i \in DOMAIN OwnedByRequested :
              /\ OwnedByRequested[i].name \in DOMAIN result
              /\ \E k \in DOMAIN result[OwnedByRequested[i].name] :
                   result[OwnedByRequested[i].name][k]
                     = [name |-> OwnedByRequested[i].name,
                        date |-> OwnedByRequested[i].date,
                        value |-> OwnedByRequested[i].value])

\* C22: the global listing has, for every stored Pod and every stored Run,
\* an entry of its own under the entity's name that holds the grouped
\* series, without window, of that entity's own metrics; no Pod and no Run
\* is missing, two Runs of one name included.
C22_ListAllComplete ==
    last.op = "list_metrics" =>
      /\ DOMAIN result.pod_metrics = DOMAIN pods
      /\ \A n \in DOMAIN pods :
           result.pod_metrics[n] = FormatResult(OwnedByPod(n), None, None)
      /\ Cardinality(DOMAIN result.run_metrics) = Cardinality(DOMAIN runs)
      /\ \A id \in DOMAIN runs :
           /\ runs[id].name \in DOMAIN result.run_metrics
           /\ result.run_metrics[runs[id].name]
                = FormatResult(SelectSeq(metrics, LAMBDA m : m.run = id /\ m.pod = NoName),
                               None, None)

\* C23: with run-create requests handled one at a time at most one Run is
\* STARTED in every reachable state, and a request is answered 409 only
\* while some Run is STARTED: FINISHED and FAILED runs cause no Conflict.
C23_SequentialCreate ==
    /\ [](Cardinality(ActiveRuns) <= 1)
    /\ [][(last'.op = "create" /\ last'.status = 409) => SomeRunStarted]_vars

\* A run was created and started while a finished or failed run is stored.
C23_Witness ==
    /\ last = Response("create", 201, "serialized")
    /\ \E id \in DOMAIN runs : runs[id].state \in Terminal
    /\ \E id \in DOMAIN runs : runs[id].state = STARTED

\* C24: the client initialises lazily and at most once successfully: init()
\* is called only while _initialized is false, and never again once it is
\* true; a payload is sent only with _initialized true and the endpoint set;
\* and once _incluster is false it stays false and no payload is sent.
C24_LazyInit ==
    [][/\ worker'.inits # worker.inits =>
            /\ ~worker.async_post.initialized
            /\ worker'.inits = worker.inits + 1
       /\ worker.async_post.initialized =>
            /\ worker'.async_post = worker.async_post
            /\ worker'.inits = worker.inits
       /\ Len(worker'.pushes) # Len(worker.pushes) =>
            /\ worker'.async_post.initialized
            /\ worker'.async_post.endpoint # NoName
       /\ ~worker.async_post.incluster =>
            /\ ~worker'.async_post.incluster
            /\ worker'.pushes = worker.pushes
            /\ worker'.inits = worker.inits]_vars

\* init() raised once and then succeeded, and two payloads were sent, the
\* second without another init().
C24_Witness ==
    /\ worker.calls = 3
    /\ worker.inits = 2
    /\ worker.async_post.initialized
    /\ Len(worker.pushes) = 2
    /\ Len(worker.records) = 2

\* C25: every call of post_metrics appends exactly one record to the local
\* records, whatever the rank and whether or not the sample is pushed; a
\* sample is pushed only with rank 0, posting not switched off and the
\* client in-cluster; and every pushed payload is among the local records.
C25_LocalRecords ==
    /\ [][/\ worker'.calls # worker.calls =>
               /\ Len(worker'.records) = Len(worker.records) + 1
               /\ SubSeq(worker'.records, 1, Len(worker.records)) = worker.records
          /\ worker'.calls = worker.calls => worker'.records = worker.records
          /\ Len(worker'.pushes) # Len(worker.pushes) =>
               /\ worker.rank = 0
               /\ ~worker.dont_post_to_dashboard
               /\ worker.async_post.incluster]_vars
    /\ [](\A i \in DOMAIN worker.pushes :
            \E k \in DOMAIN worker.records : worker.records[k] = worker.pushes[i].payload)

====
